---- MODULE Spec2Model ----
(***************************************************************************)
(* Model of the PR review server (src/server): the identifier parser and   *)
(* enrichment client (github.py), the sqlite PR store (db.py) and the      *)
(* cold-start backfill of the review handler (main.py).                    *)
(*                                                                         *)
(* Conventions.                                                            *)
(*  - A Python string that the code parses or formats is a sequence of     *)
(*    one-character strings (a "text"); labels that are only compared      *)
(*    (state, title, ci_status, ...) are TLA+ strings.                      *)
(*  - An optional value (Python None / SQL NULL) is a sequence of length   *)
(*    0 or 1: <<>> is None, <<v>> is the value v.                          *)
(*  - A Python dict is a TLA+ function from key names to optional values;  *)
(*    d.get(k) is Get(d, k).                                               *)
(*  - main.py is written against the db/github helpers by name; where a    *)
(*    helper of that name exists under src/ its body is what is modelled   *)
(*    (arguments matched by meaning), where none exists (open_db,          *)
(*    get_recent_runs_with_pr_urls, link_run_pr) the specification is.     *)
(***************************************************************************)
EXTENDS Integers, Sequences, FiniteSets, TLC

(***************************************************************************)
(* Texts                                                                   *)
(***************************************************************************)
None == <<>>

Some(v) == <<v>>

Digits == <<"0", "1", "2", "3", "4", "5", "6", "7", "8", "9">>

IsDigit(c) == \E i \in 1..Len(Digits) : Digits[i] = c

DigitVal(c) == (CHOOSE i \in 1..Len(Digits) : Digits[i] = c) - 1

\* str.isspace for the characters the model uses
IsSpace(c) == c \in {" ", "\t", "\n"}

\* str.lower for the characters the model uses
LowerChar(c) == IF c = "G" THEN "g" ELSE IF c = "A" THEN "a" ELSE c

Lower(s) == [i \in 1..Len(s) |-> LowerChar(s[i])]

\* s[i:j] with 1-based inclusive bounds
Slice(s, i, j) == IF i > j THEN <<>> ELSE SubSeq(s, i, j)

StartsAt(s, sub, i) ==
    /\ i >= 1
    /\ i + Len(sub) - 1 <= Len(s)
    /\ \A k \in 1..Len(sub) : s[i + k - 1] = sub[k]

\* sub in s
Contains(s, sub) == \E i \in 1..(Len(s) + 1) : StartsAt(s, sub, i)

\* s.find(sub) as a 1-based index, 0 when absent
Find(s, sub) ==
    IF Contains(s, sub)
    THEN CHOOSE i \in 1..(Len(s) + 1) :
            /\ StartsAt(s, sub, i)
            /\ \A j \in 1..(i - 1) : ~StartsAt(s, sub, j)
    ELSE 0

EndsWith(s, sub) == Len(sub) <= Len(s) /\ StartsAt(s, sub, Len(s) - Len(sub) + 1)

\* s.split(sep): the list of pieces, empty pieces included
RECURSIVE Split(_, _)
Split(s, sep) ==
    LET i == Find(s, sep)
    IN  IF i = 0 THEN <<s>>
        ELSE <<Slice(s, 1, i - 1)>> \o Split(Slice(s, i + Len(sep), Len(s)), sep)

\* s.split(sep, 1)
SplitOnce(s, sep) ==
    LET i == Find(s, sep)
    IN  IF i = 0 THEN <<s>>
        ELSE <<Slice(s, 1, i - 1), Slice(s, i + Len(sep), Len(s))>>

\* s.strip(): leading and trailing whitespace removed
RECURSIVE LStrip(_)
LStrip(s) == IF s # <<>> /\ IsSpace(Head(s)) THEN LStrip(Tail(s)) ELSE s

RECURSIVE RStrip(_)
RStrip(s) ==
    IF s # <<>> /\ IsSpace(s[Len(s)]) THEN RStrip(Slice(s, 1, Len(s) - 1)) ELSE s

Strip(s) == RStrip(LStrip(s))

\* s.strip("/")
RECURSIVE LStripSlash(_)
LStripSlash(s) == IF s # <<>> /\ Head(s) = "/" THEN LStripSlash(Tail(s)) ELSE s

RECURSIVE RStripSlash(_)
RStripSlash(s) ==
    IF s # <<>> /\ s[Len(s)] = "/" THEN RStripSlash(Slice(s, 1, Len(s) - 1)) ELSE s

StripSlash(s) == RStripSlash(LStripSlash(s))

\* int(text) for decimal digit strings; None where int() raises ValueError
RECURSIVE DigitsValue(_)
DigitsValue(s) ==
    IF s = <<>> THEN 0 ELSE 10 * DigitsValue(Slice(s, 1, Len(s) - 1)) + DigitVal(s[Len(s)])

ParseInt(s) ==
    IF s # <<>> /\ \A i \in 1..Len(s) : IsDigit(s[i]) THEN Some(DigitsValue(s)) ELSE None

\* str(n) / f"{n}" for n >= 0
RECURSIVE IntText(_)
IntText(n) ==
    IF n < 10 THEN <<Digits[n + 1]>> ELSE IntText(n \div 10) \o <<Digits[(n % 10) + 1]>>

SelectNonEmpty(segs) == SelectSeq(segs, LAMBDA x : x # <<>>)

(***************************************************************************)
(* github.py: parse_pr_identifier                                          *)
(***************************************************************************)
T_slash == <<"/">>

T_hash == <<"#">>

T_pull == <<"p", "u", "l", "l">>

T_pulls == <<"p", "u", "l", "l", "s">>

T_repos == <<"r", "e", "p", "o", "s">>

T_github_com == <<"g", "i", "t", "h", "u", "b", ".", "c", "o", "m">>

T_api_github_com == <<"a", "p", "i", ".">> \o T_github_com

T_https == <<"h", "t", "t", "p", "s">>

NoSpace(s) == \A i \in 1..Len(s) : ~IsSpace(s[i])

ValueError == [kind |-> "ValueError"]

Parsed(owner, repo, number) ==
    [kind |-> "ok", owner |-> owner, repo |-> repo, number |-> number]

\* re.match(r"^(?P<owner>[^\s/]+)/(?P<repo>[^\s#]+)#(?P<number>\d+)$", identifier):
\* owner has no "/", so it ends at the first "/"; repo has no "#", so it ends at
\* the first "#" after that; the rest must be digits up to the end.
ShortMatch(s) ==
    LET i     == Find(s, T_slash)
        owner == Slice(s, 1, i - 1)
        rest  == Slice(s, i + 1, Len(s))
        j     == Find(rest, T_hash)
        repo  == Slice(rest, 1, j - 1)
        num   == Slice(rest, j + 1, Len(rest))
    IN  IF /\ i > 1
           /\ NoSpace(owner)
           /\ j > 1
           /\ NoSpace(repo)
           /\ ParseInt(num) # None
        THEN Some(Parsed(owner, repo, ParseInt(num)[1]))
        ELSE None

\* characters allowed in a URL scheme, for the characters the model uses
IsSchemeChar(c) == c \notin {":", "/", "?", "#", " ", "\t", "\n", "_"}

\* the index of the first of "/", "?", "#" in s, Len(s) + 1 when there is none
RECURSIVE FirstDelim(_, _)
FirstDelim(s, delims) ==
    IF s = <<>> \/ Head(s) \in delims THEN 1 ELSE 1 + FirstDelim(Tail(s), delims)

\* urllib.parse.urlparse: scheme, netloc and path of a URL
UrlParse(url) ==
    LET i      == Find(url, <<":">>)
        hasSch == /\ i > 1
                  /\ ~IsDigit(url[1])
                  /\ \A k \in 1..(i - 1) : IsSchemeChar(url[k])
        scheme == IF hasSch THEN Lower(Slice(url, 1, i - 1)) ELSE <<>>
        rest   == IF hasSch THEN Slice(url, i + 1, Len(url)) ELSE url
        hasNet == StartsAt(rest, <<"/", "/">>, 1)
        after  == IF hasNet THEN Slice(rest, 3, Len(rest)) ELSE rest
        n      == FirstDelim(after, {"/", "?", "#"})
        netloc == IF hasNet THEN Slice(after, 1, n - 1) ELSE <<>>
        tail   == IF hasNet THEN Slice(after, n, Len(after)) ELSE after
        p      == FirstDelim(tail, {"?", "#"})
    IN  [scheme |-> scheme, netloc |-> netloc, path |-> Slice(tail, 1, p - 1)]

\* lines 51-70: int(number_str), a ValueError where it is no integer
ParsedNumber(owner, repo, num) ==
    IF num = None THEN ValueError ELSE Parsed(owner, repo, num[1])

\* lines 44-72: the URL forms, given the lower-cased host and the path segments
ParseSegments(host, segments) ==
    IF /\ EndsWith(host, T_github_com)
       /\ Len(segments) >= 4
       /\ segments[3] = T_pull
    THEN ParsedNumber(segments[1], segments[2], ParseInt(segments[4]))
    ELSE IF /\ host = T_api_github_com
            /\ Len(segments) >= 5
            /\ segments[1] = T_repos
            /\ segments[4] \in {T_pulls, T_pull}
    THEN ParsedNumber(segments[2], segments[3], ParseInt(segments[5]))
    ELSE ValueError

\* lines 41-72: what urlparse made of the identifier
ParseUrl(parsed) ==
    IF parsed.scheme # <<>> /\ parsed.netloc # <<>>
    THEN ParseSegments(Lower(parsed.netloc),
                       SelectNonEmpty(Split(StripSlash(parsed.path), T_slash)))
    ELSE ValueError

\* lines 34-72: the short form first, then the URL forms
ParseShortOrUrl(short, s) == IF short # None THEN short[1] ELSE ParseUrl(UrlParse(s))

\* lines 31-72, on the stripped identifier
ParseStripped(s) == ParseShortOrUrl(ShortMatch(s), s)

parse_pr_identifier(identifier) == ParseStripped(Strip(identifier))

parse_pr_url(url) == parse_pr_identifier(url)

\* f"{owner}/{repo}#{number}"
FormatPrId(owner, repo, number) == owner \o T_slash \o repo \o T_hash \o IntText(number)

(***************************************************************************)
(* Identifiers used as inputs                                              *)
(***************************************************************************)
WebUrl(owner, repo, num) ==
    T_https \o <<":", "/", "/">> \o T_github_com \o T_slash \o owner \o T_slash
        \o repo \o T_slash \o T_pull \o T_slash \o num

ApiUrl(owner, repo, num) ==
    T_https \o <<":", "/", "/">> \o T_api_github_com \o T_slash \o T_repos \o T_slash
        \o owner \o T_slash \o repo \o T_slash \o T_pulls \o T_slash \o num

\* https://github.com/a/b/pull/1
Url_ab1 == WebUrl(<<"a">>, <<"b">>, <<"1">>)

\* a/b#1, the same pull request in short form
Short_ab1 == <<"a", "/", "b", "#", "1">>

\* https://api.github.com/repos/a/c/pulls/2
Api_ac2 == ApiUrl(<<"a">>, <<"c">>, <<"2">>)

\* https://github.com/a/b/pull/x : a pull URL whose number is no integer
Url_badnum == WebUrl(<<"a">>, <<"b">>, <<"x">>)

\* a/b : no pull request reference at all
Text_ab == <<"a", "/", "b">>

ShortForm(owner, repo, num) == owner \o T_slash \o repo \o T_hash \o num

\* owner and repo names, among them the words the URL forms are made of
ParseNames == {<<"a">>, <<"b">>, T_pull, T_repos}

ParseNums == {<<"1">>, <<"2", "0">>}

\* what may follow the number of a web URL
ParseTails == {<<>>, <<"/", "x">>}

\* identifiers in the three supported formats
AcceptedForms ==
    {ShortForm(o, r, n) : o \in ParseNames, r \in ParseNames, n \in ParseNums}
    \cup {WebUrl(o, r, n) \o t :
            o \in ParseNames, r \in ParseNames, n \in ParseNums, t \in ParseTails}
    \cup {ApiUrl(o, r, n) : o \in ParseNames, r \in ParseNames, n \in ParseNums}

\* strings in none of them: the empty string, a/b, a#1, a/b#x, a repository
\* URL, a pull URL with no number, a pull URL of another host, an API URL
\* with pull for pulls, an API URL without repos
OtherStrings ==
    {<<>>, Text_ab, <<"a", "#", "1">>, <<"a", "/", "b", "#", "x">>,
     T_https \o <<":", "/", "/">> \o T_github_com \o <<"/", "a", "/", "b">>,
     Url_badnum,
     T_https \o <<":", "/", "/">> \o <<"x", ".", "i", "o">>
        \o <<"/", "a", "/", "b", "/">> \o T_pull \o <<"/", "1">>,
     T_https \o <<":", "/", "/">> \o T_api_github_com \o T_slash \o T_repos
        \o <<"/", "a", "/", "b", "/">> \o T_pull \o <<"/", "1">>,
     T_https \o <<":", "/", "/">> \o T_api_github_com
        \o <<"/", "a", "/", "b", "/">> \o T_pulls \o <<"/", "1">>}

(***************************************************************************)
(* Python values                                                           *)
(***************************************************************************)
\* d.get(k)
Get(d, k) == IF k \in DOMAIN d THEN d[k] ELSE None

\* bool(v) for an optional label (str), text, int and bool
TruthyS(v) == v # None /\ v[1] # ""

TruthyT(v) == v # None /\ v[1] # <<>>

TruthyI(v) == v # None /\ v[1] # 0

TruthyB(v) == v # None /\ v[1]

\* a or b
OrS(a, b) == IF TruthyS(a) THEN a ELSE b

OrT(a, b) == IF TruthyT(a) THEN a ELSE b

OrI(a, b) == IF TruthyI(a) THEN a ELSE b

\* the floats of scoring.py are counted in units of 1/Scale, which holds every
\* quotient of lines 44-50 (/800, /400, /50, /3, /2) and hundredths exactly
Scale == 2400

Max2(a, b) == IF a >= b THEN a ELSE b

Min2(a, b) == IF a <= b THEN a ELSE b

\* json.dumps of the JSON values the model uses, named by their shape
JsonDumps(obj) ==
    CASE obj = "empty-dict" -> "{}"
      [] obj = "empty-list" -> "[]"
      [] OTHER -> "{\"files\": 1}"

(***************************************************************************)
(* db.py: the prs table and upsert_pr                                      *)
(***************************************************************************)
PrColumns ==
    {"id", "owner", "repo", "number", "title", "author", "state", "html_url",
     "created_at", "updated_at", "merged_at", "additions", "deletions",
     "changed_files", "draft", "review_count", "ci_status", "has_tests",
     "doc_touch_ratio", "diff_stats"}

T_github_com_slash == T_github_com \o T_slash

T_slash_pull_slash == T_slash \o T_pull \o T_slash

\* lines 251-254: int(parts[1].split("/")[0]) and org_repo.split("/", 1); None
\* where the try block raises
PullIdentity(org_repo, num) ==
    IF num = None \/ Len(org_repo) # 2 THEN None
    ELSE Some([owner |-> org_repo[1], repo |-> org_repo[2], number |-> num[1]])

\* line 249: parts = url.split("github.com/")[1].split("/pull/")
PartsIdentity(parts) ==
    IF Len(parts) < 2 THEN None
    ELSE PullIdentity(SplitOnce(parts[1], T_slash), ParseInt(Split(parts[2], T_slash)[1]))

HostIdentity(hostSplit) ==
    IF Len(hostSplit) < 2 THEN None
    ELSE PartsIdentity(Split(hostSplit[2], T_slash_pull_slash))

\* lines 246-255: owner, repo and number read from a GitHub pull URL;
\* None where the url is no such text or any step of the try block raises
IdentityFromUrl(url) ==
    IF ~(url # None /\ Contains(url[1], T_github_com) /\ Contains(url[1], T_slash_pull_slash))
    THEN None
    ELSE HostIdentity(Split(url[1], T_github_com_slash))

\* lines 257-269: the id, from owner, repo and number or from the legacy repo
IdentityOfParts(id0, owner, repo, number, repo0) ==
    LET id1 == IF ~TruthyT(id0) /\ TruthyT(owner) /\ TruthyT(repo) /\ number # None
               THEN Some(FormatPrId(owner[1], repo[1], number[1]))
               ELSE id0
        id2 == IF ~TruthyT(id1) /\ TruthyT(repo0) /\ number # None
               THEN Some(repo0[1] \o T_hash \o IntText(number[1]))
               ELSE id1
    IN  IF ~TruthyT(id2) THEN ValueError
        ELSE [kind |-> "ok", id |-> id2[1], owner |-> owner, repo |-> repo,
              number |-> number]

\* lines 250-254: owner, repo and number are reassigned where the URL gave them
IdentityWithUrl(id0, owner0, repo0, number0, fromUrl) ==
    IF fromUrl # None
    THEN IdentityOfParts(id0, Some(fromUrl[1].owner), Some(fromUrl[1].repo),
                         Some(fromUrl[1].number), repo0)
    ELSE IdentityOfParts(id0, owner0, repo0, number0, repo0)

\* lines 239-247
IdentityOfFields(pr_row, id0, owner0, repo0, number0) ==
    IdentityWithUrl(id0, owner0, repo0, number0,
        IF (owner0 = None \/ repo0 = None \/ number0 = None) /\ ~TruthyT(id0)
        THEN IdentityFromUrl(OrT(Get(pr_row, "html_url"), Get(pr_row, "url")))
        ELSE None)

\* (id, owner, repo, number) of a record, or ValueError
_normalize_pr_identity(pr_row) ==
    IdentityOfFields(pr_row, Get(pr_row, "id"), Get(pr_row, "owner"),
                     Get(pr_row, "repo"), Get(pr_row, "number"))

\* lines 297-302: a diff_stats that is no string is serialised
DiffStatsColumn(v) ==
    IF v = None THEN None
    ELSE IF v[1].kind = "str" THEN Some(v[1].v)
    ELSE Some(JsonDumps(v[1].v))

IntOfBool(b) == IF b THEN 1 ELSE 0

\* the state is stored as it was given
StateColumnPassthrough(state, merged_at) == state

\* line 284: state = "merged" if pr_row.get("merged_at") else pr_row.get("state")
StateColumn(state, merged_at) == IF merged_at # None THEN Some("merged") ELSE state

\* line 283: (pr_row.get("user") or {}).get("login")
UserLogin(user) == IF user = None THEN None ELSE Get(user[1], "login")

\* lines 279-325: the row bound to the statement, given the identity
RowOfIdentity(pr_row, ident) ==
    IF ident.kind # "ok" THEN ValueError
    ELSE [id |-> Some(ident.id),
          owner |-> ident.owner,
          repo |-> ident.repo,
          number |-> ident.number,
          title |-> Get(pr_row, "title"),
          author |-> OrS(Get(pr_row, "author"), UserLogin(Get(pr_row, "user"))),
          state |-> StateColumn(Get(pr_row, "state"), Get(pr_row, "merged_at")),
          html_url |-> OrT(Get(pr_row, "html_url"), Get(pr_row, "url")),
          created_at |-> Get(pr_row, "created_at"),
          updated_at |-> Get(pr_row, "updated_at"),
          merged_at |-> Get(pr_row, "merged_at"),
          additions |-> OrI(Get(pr_row, "additions"), Some(0)),
          deletions |-> OrI(Get(pr_row, "deletions"), Some(0)),
          changed_files |-> OrI(Get(pr_row, "changed_files"),
                                OrI(Get(pr_row, "files_count"), Some(0))),
          draft |-> Some(IntOfBool(TruthyB(Get(pr_row, "draft")))),
          review_count |-> OrI(Get(pr_row, "review_count"),
                               OrI(Get(pr_row, "review_comments"), Some(0))),
          ci_status |-> OrS(Get(pr_row, "ci_status"), Some("unknown")),
          has_tests |-> Some(IntOfBool(TruthyB(Get(pr_row, "has_tests")))),
          doc_touch_ratio |-> OrI(Get(pr_row, "doc_touch_ratio"), Some(0)),
          diff_stats |-> DiffStatsColumn(Get(pr_row, "diff_stats"))]

\* lines 271-325: the row upsert_pr binds to the statement, or ValueError
UpsertRow(pr_row) == RowOfIdentity(pr_row, _normalize_pr_identity(pr_row))

\* the position of the row with this id in the table, 0 when there is none
RowIndex(table, id) ==
    IF \E i \in 1..Len(table) : table[i].id = id
    THEN CHOOSE i \in 1..Len(table) : table[i].id = id
    ELSE 0

\* INSERT ... ON CONFLICT(id) DO NOTHING: the first write of an id is kept
ExecInsertOrIgnore(table, row) ==
    IF RowIndex(table, row.id) = 0 THEN Append(table, row) ELSE table

\* ... DO UPDATE SET k=COALESCE(excluded.k, k): a NULL keeps the column's old value
ExecUpsertCoalesce(table, row) ==
    LET i == RowIndex(table, row.id)
    IN  IF i = 0 THEN Append(table, row)
        ELSE [table EXCEPT ![i] =
                 [k \in PrColumns |-> IF row[k] = None THEN table[i][k] ELSE row[k]]]

\* lines 327-333: INSERT INTO prs (...) VALUES (...) ON CONFLICT(id) DO UPDATE SET
\* k=excluded.k for every column k but id, then commit: one atomic statement
ExecUpsert(table, row) ==
    LET i == RowIndex(table, row.id)
    IN  IF i = 0 THEN Append(table, row)
        ELSE [table EXCEPT ![i] =
                 [k \in PrColumns |-> IF k = "id" THEN table[i][k] ELSE row[k]]]

(***************************************************************************)
(* db.py: get_recent_prs, and the run queries main.py relies on            *)
(***************************************************************************)
\* COALESCE(a, b)
Coalesce(a, b) == IF a # None THEN a ELSE b

\* the sort key of ORDER BY ... DESC: NULL sorts below every value
KeyRank(k) == IF k = None THEN 0 ELSE k[1] + 1

\* the first position holding the greatest key
ArgMax(keys) ==
    CHOOSE i \in 1..Len(keys) :
        /\ \A j \in 1..Len(keys) : KeyRank(keys[j]) <= KeyRank(keys[i])
        /\ \A j \in 1..(i - 1) : KeyRank(keys[j]) < KeyRank(keys[i])

RemoveAt(seq, i) == Slice(seq, 1, i - 1) \o Slice(seq, i + 1, Len(seq))

\* ORDER BY key DESC over rows in rowid order, equal keys kept in that order
RECURSIVE OrderByDesc(_, _)
OrderByDesc(rows, keys) ==
    IF rows = <<>> THEN <<>>
    ELSE LET i == ArgMax(keys)
         IN  <<rows[i]>> \o OrderByDesc(RemoveAt(rows, i), RemoveAt(keys, i))

\* LIMIT n (a negative n is no limit)
Limit(rows, n) == IF n < 0 \/ n >= Len(rows) THEN rows ELSE Slice(rows, 1, n)

\* SQL TRIM(x): spaces removed from both ends
RECURSIVE LTrimSp(_)
LTrimSp(s) == IF s # <<>> /\ Head(s) = " " THEN LTrimSp(Tail(s)) ELSE s

RECURSIVE RTrimSp(_)
RTrimSp(s) == IF s # <<>> /\ s[Len(s)] = " " THEN RTrimSp(Slice(s, 1, Len(s) - 1)) ELSE s

SqlTrim(s) == RTrimSp(LTrimSp(s))

\* WHERE pr_url IS NOT NULL AND TRIM(pr_url) <> ''
HasPrUrl(run) == run.pr_url # None /\ SqlTrim(run.pr_url[1]) # <<>>

MaxKey(keys) == keys[ArgMax(keys)]

\* lines 210-231: one synthesized row per distinct pr_url of the runs (the run
\* titles, and with them MAX(title), are left out of the run records)
SynthRows(runTable) ==
    LET withUrl == SelectSeq(runTable, HasPrUrl)
        group(u) == SelectSeq(withUrl, LAMBDA r : r.pr_url = u)
        row(u) ==
            LET g == group(u)
            IN  [html_url |-> u,
                 updated_at |-> MaxKey([i \in 1..Len(g) |->
                                           Coalesce(g[i].updated_at, g[i].created_at)]),
                 occurrences |-> Some(Len(g)),
                 id |-> u,
                 state |-> Some("open")]
        \* the groups in order of their first run, then ORDER BY updated_at DESC
        firsts == SelectSeq([i \in 1..Len(withUrl) |->
                                IF \A j \in 1..(i - 1) : withUrl[j].pr_url # withUrl[i].pr_url
                                THEN withUrl[i].pr_url ELSE None],
                            LAMBDA u : u # None)
        rows   == [i \in 1..Len(firsts) |-> row(firsts[i])]
    IN  OrderByDesc(rows, [i \in 1..Len(rows) |-> rows[i].updated_at])

\* lines 191-231: the rows of prs, most recent first; when prs is empty, rows
\* synthesized from the runs that carry a pr_url
get_recent_prs(table, runTable, limit) ==
    LET n    == IF limit = None THEN 50 ELSE limit[1]
        real == Limit(OrderByDesc(table,
                    [i \in 1..Len(table) |->
                        Coalesce(table[i].updated_at, table[i].created_at)]), n)
    IN  IF real # <<>> THEN real ELSE Limit(SynthRows(runTable), n)

\* the runs that carry a non-empty pr_url, most recent first, at most limit
get_recent_runs_with_pr_urls(runTable, limit) ==
    LET withUrl == SelectSeq(runTable, LAMBDA r : TruthyT(r.pr_url))
    IN  Limit(OrderByDesc(withUrl,
                [i \in 1..Len(withUrl) |->
                    Coalesce(withUrl[i].updated_at, withUrl[i].created_at)]), limit)

\* a run_prs table keyed by run_id alone
RunPrsKeyRunOnly(row) == <<row[1]>>

\* db.py lines 113-117: PRIMARY KEY (run_id, pr_id), the key of a row <<run_id, pr_id>>
RunPrsKey(row) == <<row[1], row[2]>>

\* the table holds a row with the key of this row
KeyConflict(links, row) == \E r \in links : RunPrsKey(r) = RunPrsKey(row)

\* INSERT OR IGNORE INTO run_prs (run_id, pr_id): a row whose key is taken is
\* skipped, and the statement does not raise
link_run_pr(links, run_id, pr_id) ==
    IF KeyConflict(links, <<run_id, pr_id>>) THEN links
    ELSE links \cup {<<run_id, pr_id>>}

(***************************************************************************)
(* github.py: enrich_pr                                                    *)
(***************************************************************************)
\* What the GitHub API answers to GET /repos/{owner}/{repo}/pulls/{number}:
\* a transport or status error (raise_for_status, timeout), a JSON body that is
\* no object, an empty object, or a pull request object.
FetchError == [kind |-> "error"]

FetchNull == [kind |-> "null"]

FetchEmpty == [kind |-> "object", pr |-> <<>>]

FetchFull(owner, repo, number) ==
    [kind |-> "object",
     pr |-> [html_url |-> Some(WebUrl(owner, repo, IntText(number))),
             title |-> Some("Fix"),
             state |-> Some("open"),
             draft |-> Some(FALSE),
             merged |-> Some(FALSE),
             user |-> Some([login |-> Some("dev")]),
             additions |-> Some(7),
             deletions |-> Some(2),
             changed_files |-> Some(1),
             created_at |-> Some(1),
             updated_at |-> Some(2),
             closed_at |-> None]]

FetchResults(owner, repo, number) ==
    {FetchError, FetchNull, FetchEmpty, FetchFull(owner, repo, number)}

Raised(type) == [kind |-> "raised", type |-> type]

Returned(data) == [kind |-> "returned", data |-> data]

\* lines 153-175: the normalized record (labels, assignees, reviewers, refs and
\* the raw object, which the store never reads, are left out)
Normalized(owner, repo, number, pr) ==
    LET user == Get(pr, "user")
    IN  [owner |-> Some(owner),
         repo |-> Some(repo),
         number |-> Some(number),
         url |-> Get(pr, "html_url"),
         title |-> Get(pr, "title"),
         state |-> Get(pr, "state"),
         draft |-> Get(pr, "draft"),
         merged |-> Get(pr, "merged"),
         user_login |-> IF user = None THEN None ELSE Get(user[1], "login"),
         additions |-> Get(pr, "additions"),
         deletions |-> Get(pr, "deletions"),
         changed_files |-> Get(pr, "changed_files"),
         created_at |-> Get(pr, "created_at"),
         updated_at |-> Get(pr, "updated_at"),
         closed_at |-> Get(pr, "closed_at")]

\* a fetch that fails yields a record of nulls with a synthesized url
EnrichFetchedDegrades(owner, repo, number, token, fetch) ==
    IF token /\ fetch.kind = "object"
    THEN Returned(Normalized(owner, repo, number, fetch.pr))
    ELSE Returned([Normalized(owner, repo, number, <<>>) EXCEPT
                      !.url = Some(WebUrl(owner, repo, IntText(number)))])

\* lines 129-175: the token check, the request and the normalization, up to the
\* write: the record to store, or the exception raised before any write
EnrichFetched(owner, repo, number, token, fetch) ==
    IF ~token THEN Raised("ValueError")
    ELSE IF fetch.kind = "error" THEN Raised("HTTPError")
    ELSE IF fetch.kind = "null" THEN Raised("AttributeError")
    ELSE Returned(Normalized(owner, repo, number, fetch.pr))

(***************************************************************************)
(* Bounds and inputs                                                       *)
(***************************************************************************)
\* runs the upstream pipeline writes
MaxRuns == 2

\* review requests served
MaxPasses == 2

\* direct calls of the store and enrichment API
MaxCalls == 3

\* the most items one review ranks
MaxBatch == 3

\* the most items one roadmap hint is made for
MaxAggregate == 12

Writers == {"w1", "w2"}

Id_ab1 == FormatPrId(<<"a">>, <<"b">>, 1)

\* an explicit id, and nothing that identifies owner, repo or number
In_A == [id |-> Some(Id_ab1), title |-> Some("A"), state |-> Some("open"),
         updated_at |-> Some(1)]

\* owner, repo and number; merged
In_B == [owner |-> Some(<<"a">>), repo |-> Some(<<"b">>), number |-> Some(1),
         author |-> Some("B"), state |-> Some("closed"), merged_at |-> Some(3),
         has_tests |-> Some(TRUE),
         diff_stats |-> Some([kind |-> "obj", v |-> "empty-dict"])]

\* only a pull URL, of another pull request
In_C == [html_url |-> Some(WebUrl(<<"a">>, <<"c">>, <<"2">>)), additions |-> Some(4),
         draft |-> Some(TRUE)]

\* nothing that identifies a pull request
In_D == [title |-> Some("untitled")]

UpsertInputs == {In_A, In_B, In_C, In_D}

\* pr_url of a run: NULL, or a text
RunUrls == {None, Some(Url_ab1), Some(Short_ab1), Some(Api_ac2), Some(Url_badnum)}

\* body.limit of a review request; 0 stands for an absent limit
BodyLimits == {0, 1}

EnrichIdentifiers == {Url_ab1, Api_ac2, Text_ab}

RunId(n) == <<"r">> \o IntText(n)

\* PullRequestRecords of a/b#1 with every field of the data model set, in every
\* combination of state and merged_at
RoundTripInputs ==
    {[id |-> Some(Id_ab1), owner |-> Some(<<"a">>), repo |-> Some(<<"b">>),
      number |-> Some(1), title |-> Some("A"), author |-> Some("B"),
      state |-> Some(st), html_url |-> Some(Url_ab1), created_at |-> Some(1),
      updated_at |-> Some(2), merged_at |-> m, additions |-> Some(n),
      deletions |-> Some(0), changed_files |-> Some(1), draft |-> Some(d),
      review_count |-> Some(2), ci_status |-> Some("failure"),
      has_tests |-> Some(~d), doc_touch_ratio |-> Some(5),
      diff_stats |-> Some([kind |-> "str", v |-> "{}"])] :
        st \in {"open", "closed", "merged"}, m \in {None, Some(3)},
        n \in {0, 4}, d \in BOOLEAN}

\* a dict that has the key with one of the values, or has not the key
Opt(k, values) == {<<>>} \cup {k :> v : v \in values}

\* PR dicts with fields missing, null and negative
ScoreInputs ==
    {a @@ d @@ c @@ h @@ r @@ f @@ st :
        a \in Opt("additions", {Some(-2000), Some(30), Some(700)}),
        d \in Opt("deletions", {None, Some(100)}) \ {<<>>},
        c \in Opt("changed_files", {Some(-5), Some(40)}),
        h \in Opt("has_tests", {Some(TRUE)}),
        r \in Opt("doc_touch_ratio", {None, Some(-100), Some(20), Some(500)}) \ {<<>>},
        f \in Opt("draft", {Some(TRUE)}),
        st \in Opt("state", {None, Some("merged")}) \ {<<>>}}

\* rows of prs as compute_attention gets them, the flags as booleans
AttentionInputs ==
    [additions : {None, Some(30), Some(260), Some(700)},
     deletions : {Some(0), Some(100)},
     changed_files : {Some(7), Some(40)},
     has_tests : {Some(FALSE), Some(TRUE)},
     draft : {Some(FALSE), Some(TRUE)},
     ci_status : {None, Some("failure"), Some("pending"), Some("success")},
     doc_touch_ratio : {Some(5), Some(60)}]

\* the scored PRs a review appends to items
RankItems ==
    {[id |-> Some(<<p>>), attention |-> [score |-> n]] :
        p \in {"p", "q", "r"}, n \in {10, 90}}

\* Scores objects, each dimension at its threshold, beyond it or not set
RecommendScores ==
    {st @@ v @@ c @@ a @@ ef :
        st \in Opt("stability", {5 * Scale, 6 * Scale}),
        v \in Opt("verbosity", {5 * Scale - 1, 5 * Scale}),
        c \in Opt("clean_code", {5 * Scale, 6 * Scale}),
        a \in Opt("attention", {60 * Scale, 60 * Scale + 1}),
        ef \in Opt("efficiency", {4 * Scale, 5 * Scale})}

\* the PR dicts that go with them
RecommendPrs == Opt("has_tests", {Some(TRUE), Some(FALSE)}) \ {<<>>}

\* a scored item {'scores': Scores, 'pr': dict}
HintItem(attention, verbosity, efficiency, has_tests) ==
    [scores |-> Some([attention |-> attention * Scale, verbosity |-> verbosity * Scale,
                      efficiency |-> efficiency * Scale]),
     pr |-> Some([has_tests |-> Some(has_tests)])]

\* one item of high attention, one of low docs at the attention limit, one
\* without tests, one of low efficiency, one without findings, one not scored
HintItems ==
    {HintItem(90, 6, 6, TRUE), HintItem(70, 4, 6, TRUE), HintItem(50, 6, 6, FALSE),
     HintItem(40, 6, 4, TRUE), HintItem(30, 6, 6, TRUE),
     [scores |-> None, pr |-> None]}

\* the runs and PRs link_run_pr is called with
LinkRuns == {RunId(1), RunId(2), RunId(3)}

LinkPrs == {Id_ab1, FormatPrId(<<"a">>, <<"b">>, 2), FormatPrId(<<"a">>, <<"c">>, 2)}

\* line 267: upsert_pr raises before it writes
UpsertRaises(pr_row) == _normalize_pr_identity(pr_row).kind # "ok"

\* lines 177-195: the record is upserted by enrich_pr itself and then returned;
\* a failing upsert propagates
EnrichOutcome(fetched, dbok) ==
    IF fetched.kind = "raised" THEN fetched
    ELSE IF UpsertRaises(fetched.data) THEN Raised("ValueError")
    ELSE IF ~dbok THEN Raised("OperationalError")
    ELSE fetched

\* enrich_pr as a pure transform: nothing is written
EnrichStorePure(table, fetched, dbok) == table

\* the prs table after enrich_pr
EnrichStore(table, fetched, dbok) ==
    IF EnrichOutcome(fetched, dbok).kind = "returned"
    THEN ExecUpsert(table, UpsertRow(fetched.data))
    ELSE table

(***************************************************************************)
(* State                                                                   *)
(***************************************************************************)
VARIABLES
    prs,        \* table prs: rows in rowid order
    runs,       \* table runs: rows in rowid order
    run_prs,    \* table run_prs: set of (run_id, pr_id)
    pc,         \* where the review handler is
    limit,      \* review_prs: limit
    b_runs,     \* _enrich_from_runs_if_needed: runs
    b_idx,      \* position of the loop in runs
    seen_ids,   \* seen_ids
    cur,        \* owner, repo, number of the current run
    data,       \* data, the record enrich_pr returned
    pass,       \* history of the current backfill pass
    w_pc,       \* where each concurrent caller of upsert_pr is
    w_row,      \* the row each caller bound to its statement
    w_raced,    \* history: two callers held a bound row at the same time
    calls,      \* direct API calls made so far
    lastInput,  \* history: the record of the latest upsert executed, per id
    ecall,      \* history: the latest enrich_pr call and how it ended
    lastOp,     \* history: the call the latest step made: enrich, link or other
    asked,      \* history: the (run_id, pr_id) pairs link_run_pr returned for
    arg,        \* the argument of the latest call of a pure function
    ret         \* what that call returned

vars == <<prs, runs, run_prs, pc, limit, b_runs, b_idx, seen_ids, cur, data, pass,
          w_pc, w_row, w_raced, calls, lastInput, ecall, lastOp, asked, arg, ret>>

storeVars == <<prs, run_prs>>

backfillVars == <<pc, limit, b_runs, b_idx, seen_ids, cur, data, pass>>

writerVars == <<w_pc, w_row, w_raced>>

pureVars == <<arg, ret>>

\* the store, its callers and the history
progVars == <<prs, runs, run_prs, backfillVars, writerVars, calls, lastInput, ecall, asked>>

NoPass == [n |-> 0, cold |-> FALSE, refs |-> <<>>, enriched |-> <<>>, upserts |-> 0,
           links |-> 0, writeFailed |-> FALSE, failure |-> "none"]

NoCall == [kind |-> "none"]

Init ==
    /\ prs = <<>>
    /\ runs = <<>>
    /\ run_prs = {}
    /\ pc = "idle"
    /\ limit = 0
    /\ b_runs = <<>>
    /\ b_idx = 0
    /\ seen_ids = {}
    /\ cur = None
    /\ data = None
    /\ pass = NoPass
    /\ w_pc = [w \in Writers |-> "idle"]
    /\ w_row = [w \in Writers |-> None]
    /\ w_raced = FALSE
    /\ calls = 0
    /\ lastInput = <<>>
    /\ ecall = NoCall
    /\ lastOp = "other"
    /\ asked = {}
    /\ arg = None
    /\ ret = None

\* the stored row of an id, None when there is none
Stored(table, id) ==
    LET i == RowIndex(table, Some(id)) IN IF i = 0 THEN None ELSE Some(table[i])

\* history: pr_row is the latest record upserted under its id
Noted(hist, pr_row) == (_normalize_pr_identity(pr_row).id :> pr_row) @@ hist

(***************************************************************************)
(* The store and enrichment API, called directly                           *)
(***************************************************************************)
\* upsert_pr, lines 279-325: the identity is resolved and the row is built
WBind(w, input) ==
    /\ w_pc[w] = "idle"
    /\ calls < MaxCalls
    /\ calls' = calls + 1
    /\ IF UpsertRaises(input)
       THEN /\ w_pc' = [w_pc EXCEPT ![w] = "failed"]
            /\ UNCHANGED <<w_row, w_raced>>
       ELSE /\ w_pc' = [w_pc EXCEPT ![w] = "bound"]
            /\ w_row' = [w_row EXCEPT ![w] = Some([row |-> UpsertRow(input),
                                                  input |-> input])]
            /\ w_raced' = (w_raced \/ \E o \in Writers \ {w} : w_pc[o] = "bound")
    /\ lastOp' = "other"
    /\ UNCHANGED <<asked, pureVars>>
    /\ UNCHANGED <<storeVars, runs, backfillVars, lastInput, ecall>>

\* upsert_pr, lines 327-333: the statement runs and commits, or sqlite raises
WExec(w, dbok) ==
    /\ w_pc[w] = "bound"
    /\ IF dbok
       THEN /\ prs' = ExecUpsert(prs, w_row[w][1].row)
            /\ lastInput' = Noted(lastInput, w_row[w][1].input)
            /\ w_pc' = [w_pc EXCEPT ![w] = "done"]
       ELSE /\ w_pc' = [w_pc EXCEPT ![w] = "failed"]
            /\ UNCHANGED <<prs, lastInput>>
    /\ lastOp' = "other"
    /\ UNCHANGED <<asked, pureVars>>
    /\ UNCHANGED <<run_prs, runs, backfillVars, w_row, w_raced, calls, ecall>>

\* the caller is free to call upsert_pr again
WReturn(w) ==
    /\ w_pc[w] \in {"done", "failed"}
    /\ w_pc' = [w_pc EXCEPT ![w] = "idle"]
    /\ w_row' = [w_row EXCEPT ![w] = None]
    /\ lastOp' = "other"
    /\ UNCHANGED <<asked, pureVars>>
    /\ UNCHANGED <<storeVars, runs, backfillVars, w_raced, calls, lastInput, ecall>>

\* how one enrich_pr call went: what was asked, what the API answered, the result
Call(parsed, fetch, result) ==
    [kind |-> "call", parsed |-> parsed, fetch |-> fetch, result |-> result]

\* no request was sent
NoFetch == [kind |-> "none"]

\* what the request can answer; without a token no request is sent
FetchOutcomes(parsed, token) ==
    IF token THEN FetchResults(parsed.owner, parsed.repo, parsed.number) ELSE {NoFetch}

\* whether sqlite accepts the statement; asked only of a call that reaches it
DbOutcomes(fetched) == IF fetched.kind = "returned" THEN BOOLEAN ELSE {TRUE}

\* enrich_pr, lines 129-198: the call once its identifier is parsed
EnrichParsed(parsed, token) ==
    IF parsed.kind # "ok"
    THEN /\ ecall' = Call(parsed, NoFetch, Raised("ValueError"))
         /\ UNCHANGED <<prs, lastInput>>
    ELSE \E fetch \in FetchOutcomes(parsed, token) :
           LET fetched == EnrichFetched(parsed.owner, parsed.repo, parsed.number,
                                        token, fetch)
           IN  \E dbok \in DbOutcomes(fetched) :
                 LET result == EnrichOutcome(fetched, dbok)
                 IN  /\ ecall' = Call(parsed, fetch, result)
                     /\ prs' = EnrichStore(prs, fetched, dbok)
                     /\ lastInput' = IF result.kind = "returned"
                                     THEN Noted(lastInput, result.data)
                                     ELSE lastInput

\* enrich_pr(pr_identifier), lines 127-198
EnrichCall(identifier, token) ==
    /\ calls < MaxCalls
    /\ calls' = calls + 1
    /\ lastOp' = "enrich"
    /\ UNCHANGED <<asked, pureVars>>
    /\ EnrichParsed(parse_pr_identifier(identifier), token)
    /\ UNCHANGED <<run_prs, runs, backfillVars, writerVars>>

\* link_run_pr(run_id, pr_id)
LinkCall(run_id, pr_id) ==
    /\ calls < MaxCalls
    /\ calls' = calls + 1
    /\ run_prs' = link_run_pr(run_prs, run_id, pr_id)
    /\ asked' = asked \cup {<<run_id, pr_id>>}
    /\ lastOp' = "link"
    /\ UNCHANGED pureVars
    /\ UNCHANGED <<prs, runs, backfillVars, writerVars, lastInput, ecall>>

(***************************************************************************)
(* scoring.py: the heuristic scores of one PR                              *)
(***************************************************************************)
\* only the lower bound is applied
clampFromBelow(value, lo, hi) == Max2(lo, value)

\* lines 17-18: max(lo, min(hi, float(value)))
clamp(value, lo, hi) == Max2(lo, Min2(hi, value))

\* lines 34-41
SizePenalty(churn) ==
    IF churn < 50 THEN 0
    ELSE IF churn < 200 THEN 2
    ELSE IF churn < 600 THEN 4
    ELSE 6

\* lines 53-63
Risk(churn, changed_files, has_tests, draft, state) ==
    (IF churn > 600 THEN 30 ELSE 0)
    + (IF ~has_tests THEN 20 ELSE 0)
    + (IF draft THEN 10 ELSE 0)
    + (IF changed_files > 30 THEN 10 ELSE 0)
    + (IF state = "open" THEN 15 ELSE 0)

\* lines 43-50, 65-77; doc_touch_ratio is in hundredths, the scores in 1/Scale
ScoresOf(churn, size_penalty, changed_files, has_tests, doc_touch_ratio, draft, state) ==
    [code_quality |-> clamp((9 - size_penalty + (IF has_tests THEN 1 ELSE -1)) * Scale,
                            0, 10 * Scale),
     verbosity |-> clamp(5 * Scale + doc_touch_ratio * 5 * (Scale \div 100)
                         - churn * (Scale \div 800), 0, 10 * Scale),
     efficiency |-> clamp(7 * Scale - churn * (Scale \div 400), 0, 10 * Scale),
     stability |-> clamp(((IF has_tests THEN 8 ELSE 5)
                          + (IF state = "merged" THEN 2 ELSE 0)
                          - (IF draft THEN 2 ELSE 0)) * Scale, 0, 10 * Scale),
     robustness |-> clamp(((IF has_tests THEN 6 ELSE 4)
                           + (IF doc_touch_ratio > 10 THEN 1 ELSE 0)) * Scale,
                          0, 10 * Scale),
     clean_code |-> clamp(7 * Scale - size_penalty * (Scale \div 2), 0, 10 * Scale),
     reusability |-> clamp(6 * Scale + doc_touch_ratio * 2 * (Scale \div 100)
                           - changed_files * (Scale \div 50), 0, 10 * Scale),
     ingenuity |-> clamp(5 * Scale
                         + Min2(3 * Scale, doc_touch_ratio * 2 * (Scale \div 100))
                         - size_penalty * (Scale \div 3), 0, 10 * Scale),
     attention |-> Max2(0, Min2(100 * Scale,
                        30 * Scale
                        + Risk(churn, changed_files, has_tests, draft, state) * Scale
                        - doc_touch_ratio * 10 * (Scale \div 100)))]

\* lines 31-41
ScoreFields(additions, deletions, changed_files, has_tests, doc_touch_ratio, draft, state) ==
    ScoresOf(additions + deletions, SizePenalty(additions + deletions),
             changed_files, has_tests, doc_touch_ratio, draft, state)

\* lines 21-29: the fields with their defaults
score_pr(pr) ==
    ScoreFields(OrI(Get(pr, "additions"), Some(0))[1],
                OrI(Get(pr, "deletions"), Some(0))[1],
                OrI(Get(pr, "changed_files"), Some(0))[1],
                TruthyB(Get(pr, "has_tests")),
                OrI(Get(pr, "doc_touch_ratio"), Some(0))[1],
                TruthyB(Get(pr, "draft")),
                OrS(Get(pr, "state"), Some("open"))[1])

(***************************************************************************)
(* compute_attention: imported from scoring.py by main.py (lines 12, 87),  *)
(* which unpacks its result as (score, factors); the additive factor model *)
(***************************************************************************)
\* round(num / den) for den > 0, halves to the even neighbour
Round(num, den) ==
    IF 2 * (num % den) > den THEN (num \div den) + 1
    ELSE IF 2 * (num % den) < den THEN num \div den
    ELSE (num \div den) + ((num \div den) % 2)

\* a draft counted as a risk
DraftRisk(draft) == IF draft THEN 10 ELSE 0

DraftPenalty(draft) == IF draft THEN -10 ELSE 0

\* the factors: the churn against 500 lines, the files against 20, the CI
\* status, missing tests, a draft, and a doc_touch_ratio (in hundredths) over 0.5
AttentionFactors(churn, changed_files, ci_status, has_tests, draft, doc_touch_ratio) ==
    [churn_factor |-> Round(30 * clamp(churn, 0, 500), 500),
     file_factor |-> Round(20 * clamp(changed_files, 0, 20), 20),
     ci_factor |-> IF ci_status \in {"failure", "error"} THEN 25
                   ELSE IF ci_status \in {"cancelled", "pending", "in_progress"} THEN 10
                   ELSE IF ci_status = "unknown" THEN 5
                   ELSE 0,
     missing_tests |-> IF has_tests THEN 0 ELSE 15,
     draft_penalty |-> DraftPenalty(draft),
     docs_penalty |-> IF doc_touch_ratio > 50 THEN -5 ELSE 0,
     churn |-> churn, changed_files |-> changed_files, has_tests |-> has_tests,
     draft |-> draft, doc_touch_ratio |-> doc_touch_ratio]

FactorSum(factors) ==
    factors.churn_factor + factors.file_factor + factors.ci_factor
    + factors.missing_tests + factors.draft_penalty + factors.docs_penalty

AttentionOf(factors) == [score |-> clamp(FactorSum(factors), 0, 100), factors |-> factors]

compute_attention(pr) ==
    AttentionOf(AttentionFactors(
        OrI(Get(pr, "additions"), Some(0))[1] + OrI(Get(pr, "deletions"), Some(0))[1],
        OrI(Get(pr, "changed_files"), Some(0))[1],
        OrS(Get(pr, "ci_status"), Some("unknown"))[1],
        TruthyB(Get(pr, "has_tests")),
        TruthyB(Get(pr, "draft")),
        OrI(Get(pr, "doc_touch_ratio"), Some(0))[1]))

(***************************************************************************)
(* recommend.py: next steps for one PR, and the hint for a batch           *)
(***************************************************************************)
\* lines 22-28
NEXT_STEPS_TEMPLATES ==
    [tests_missing |-> "Add/extend unit tests targeting new logic and edge cases; gate with CI.",
     docs_low |-> "Augment README/inline docs; explain rationale and trade-offs.",
     too_large |-> "Split PR into cohesive commits/modules; isolate refactors from logic changes.",
     needs_review |-> "Request review from owner of touched module; add checklists.",
     perf_risk |-> "Benchmark hotspots; add micro-bench or profiling notes."]

\* getattr(scores, name, 0.0), in 1/Scale
Attr(scores, name) == IF name \in DOMAIN scores THEN scores[name] ELSE 0

\* lines 41-54: recs after the five tests
Recs(scores, has_tests) ==
    (IF Attr(scores, "stability") < 6 * Scale \/ ~has_tests
     THEN <<NEXT_STEPS_TEMPLATES.tests_missing>> ELSE <<>>)
    \o (IF Attr(scores, "verbosity") < 5 * Scale
        THEN <<NEXT_STEPS_TEMPLATES.docs_low>> ELSE <<>>)
    \o (IF Attr(scores, "clean_code") < 6 * Scale
        THEN <<NEXT_STEPS_TEMPLATES.too_large>> ELSE <<>>)
    \o (IF Attr(scores, "attention") > 60 * Scale
        THEN <<NEXT_STEPS_TEMPLATES.needs_review>> ELSE <<>>)
    \o (IF Attr(scores, "efficiency") < 5 * Scale
        THEN <<NEXT_STEPS_TEMPLATES.perf_risk>> ELSE <<>>)

\* the loop without its break
RECURSIVE DedupedUncapped(_, _)
DedupedUncapped(recs, deduped) ==
    IF recs = <<>> THEN deduped
    ELSE IF \E i \in 1..Len(deduped) : deduped[i] = Head(recs)
         THEN DedupedUncapped(Tail(recs), deduped)
         ELSE DedupedUncapped(Tail(recs), Append(deduped, Head(recs)))

\* lines 57-64: the loop over recs; seen holds what deduped holds
RECURSIVE Deduped(_, _)
Deduped(recs, deduped) ==
    IF recs = <<>> THEN deduped
    ELSE IF \E i \in 1..Len(deduped) : deduped[i] = Head(recs)
         THEN Deduped(Tail(recs), deduped)
         ELSE IF Len(deduped) + 1 >= 3 THEN Append(deduped, Head(recs))
              ELSE Deduped(Tail(recs), Append(deduped, Head(recs)))

\* lines 31-66
recommendations(scores, pr) ==
    Deduped(Recs(scores, TruthyB(Get(pr, "has_tests"))), <<>>)

\* lines 83-86
AttnHighCount(aggregate) ==
    Cardinality({i \in 1..Len(aggregate) :
                    /\ Get(aggregate[i], "scores") # None
                    /\ Attr(aggregate[i].scores[1], "attention") > 70 * Scale})

\* lines 87-90
LowDocsCount(aggregate) ==
    Cardinality({i \in 1..Len(aggregate) :
                    /\ Get(aggregate[i], "scores") # None
                    /\ Attr(aggregate[i].scores[1], "verbosity") < 5 * Scale})

\* lines 91-94
LowTestsCount(aggregate) ==
    Cardinality({i \in 1..Len(aggregate) :
                    /\ Get(aggregate[i], "pr") # None
                    /\ ~TruthyB(Get(aggregate[i].pr[1], "has_tests"))})

\* lines 95-98
PerfRiskCount(aggregate) ==
    Cardinality({i \in 1..Len(aggregate) :
                    /\ Get(aggregate[i], "scores") # None
                    /\ Attr(aggregate[i].scores[1], "efficiency") < 5 * Scale})

\* the share of the batch alone
ThresholdShare(total, k) == total \div k

\* lines 100-108: max(2, total // k)
Threshold(total, k) == Max2(2, total \div k)

\* lines 100-111
HintOf(total, attn_high, low_docs, low_tests, perf_risk) ==
    IF attn_high >= Threshold(total, 3) /\ low_docs >= Threshold(total, 4)
    THEN "Prioritize a documentation and testing sprint; enforce PR size guardrails and module ownership."
    ELSE IF attn_high >= Threshold(total, 3)
    THEN "Enforce PR size guardrails; require risk checklists on high-attention changes."
    ELSE IF low_docs >= Threshold(total, 4)
    THEN "Invest in better documentation and rationale sections in PRs; adopt a docs checklist."
    ELSE IF low_tests >= Threshold(total, 4)
    THEN "Schedule a testing push; add CI gates requiring targeted unit tests on changed modules."
    ELSE IF perf_risk >= Threshold(total, 4)
    THEN "Add performance budgets and basic benchmarks for hotspots; profile critical paths."
    ELSE "Steady state; continue current review process and incremental improvements."

\* lines 69-111
roadmap_hint(aggregate) ==
    IF aggregate = <<>> THEN "No data yet."
    ELSE HintOf(Len(aggregate), AttnHighCount(aggregate), LowDocsCount(aggregate),
                LowTestsCount(aggregate), PerfRiskCount(aggregate))

(***************************************************************************)
(* main.py line 96: items.sort(key=..., reverse=True)                      *)
(***************************************************************************)
RECURSIVE Reverse(_)
Reverse(seq) == IF seq = <<>> THEN <<>> ELSE Append(Reverse(Tail(seq)), Head(seq))

\* the key of line 96: x["attention"]["score"]
SortKey(x) == x.attention.score

\* x put into a list sorted by key, behind every element whose key is not larger
RECURSIVE InsertByKey(_, _)
InsertByKey(sorted, x) ==
    IF sorted = <<>> THEN <<x>>
    ELSE IF SortKey(Head(sorted)) <= SortKey(x)
         THEN <<Head(sorted)>> \o InsertByKey(Tail(sorted), x)
         ELSE <<x>> \o sorted

\* list.sort by key: ascending, equal keys in the order they came
RECURSIVE SortByKey(_)
SortByKey(seq) ==
    IF seq = <<>> THEN <<>>
    ELSE InsertByKey(SortByKey(SubSeq(seq, 1, Len(seq) - 1)), seq[Len(seq)])

\* the list sorted ascending and then turned around
SortThenReverse(seq) == Reverse(SortByKey(seq))

\* list.sort(key, reverse=True): the list is turned around, sorted ascending
\* and turned around again, which keeps equal keys in the order they came
SortReversed(seq) == Reverse(SortByKey(Reverse(seq)))

(***************************************************************************)
(* main.py: the review handler and its cold-start backfill                 *)
(***************************************************************************)
\* line 70: limit = max(1, min(100, body.limit or 20))
ReviewLimit(bodyLimit) == Max2(1, Min2(100, IF bodyLimit = 0 THEN 20 ELSE bodyLimit))

\* the early return is missing
BackfillAlways(existing) == TRUE

\* lines 36-38: the backfill goes on only when get_recent_prs returned nothing
BackfillNeeded(existing) == existing = <<>>

\* no except clause: a failed write propagates
AfterWritePropagates(failed) == IF failed THEN "raised" ELSE "loop"

\* lines 56-58: except Exception: pass, whatever the write did the loop goes on
AfterWrite(failed) == "loop"

\* the upstream pipeline records a run
AddRun(url) ==
    /\ Len(runs) < MaxRuns
    /\ runs' = Append(runs, [id |-> RunId(Len(runs) + 1), pr_url |-> url,
                             created_at |-> Some(Len(runs) + 1), updated_at |-> None])
    /\ lastOp' = "other"
    /\ UNCHANGED <<asked, pureVars>>
    /\ UNCHANGED <<storeVars, backfillVars, writerVars, calls, lastInput, ecall>>

\* lines 69-38: a review request arrives; the store is asked for its recent PRs
BStart(bodyLimit) ==
    /\ pc = "idle"
    /\ pass.n < MaxPasses
    /\ limit' = ReviewLimit(bodyLimit)
    /\ pass' = [NoPass EXCEPT !.n = pass.n + 1,
                              !.cold = (prs = <<>>),
                              !.refs = get_recent_runs_with_pr_urls(runs, limit')]
    /\ pc' = IF BackfillNeeded(get_recent_prs(prs, runs, Some(limit')))
             THEN "runs" ELSE "done"
    /\ lastOp' = "other"
    /\ UNCHANGED <<asked, pureVars>>
    /\ UNCHANGED <<storeVars, runs, b_runs, b_idx, seen_ids, cur, data, writerVars,
                   calls, lastInput, ecall>>

\* lines 40-41
BFetchRuns ==
    /\ pc = "runs"
    /\ b_runs' = get_recent_runs_with_pr_urls(runs, limit)
    /\ b_idx' = 1
    /\ seen_ids' = {}
    /\ pc' = "loop"
    /\ lastOp' = "other"
    /\ UNCHANGED <<asked, pureVars>>
    /\ UNCHANGED <<storeVars, runs, limit, cur, data, pass, writerVars, calls,
                   lastInput, ecall>>

\* lines 42-51 and 60: the next run is resolved, or the loop ends. parse_pr_url
\* returns a 3-tuple or raises, so "if not parsed" (line 45) never holds.
BNext ==
    /\ pc = "loop"
    /\ IF b_idx > Len(b_runs)
       THEN /\ pc' = "done"
            /\ UNCHANGED <<b_idx, seen_ids, cur, pass>>
       ELSE LET parsed == parse_pr_url(b_runs[b_idx].pr_url[1])
            IN  IF parsed.kind # "ok"
                THEN /\ pc' = "raised"
                     /\ pass' = [pass EXCEPT !.failure = "parse"]
                     /\ UNCHANGED <<b_idx, seen_ids, cur>>
                ELSE LET pr_id == FormatPrId(parsed.owner, parsed.repo, parsed.number)
                     IN  IF pr_id \in seen_ids
                         THEN /\ b_idx' = b_idx + 1
                              /\ UNCHANGED <<pc, seen_ids, cur, pass>>
                         ELSE /\ seen_ids' = seen_ids \cup {pr_id}
                              /\ cur' = Some(parsed)
                              /\ pc' = "enrich"
                              /\ UNCHANGED <<b_idx, pass>>
    /\ lastOp' = "other"
    /\ UNCHANGED <<asked, pureVars>>
    /\ UNCHANGED <<storeVars, runs, limit, b_runs, data, writerVars, calls, lastInput,
                   ecall>>

\* line 52: data = await enrich_pr(owner, repo, number), outside the try block
BEnrich(token) ==
    /\ pc = "enrich"
    /\ \E fetch \in FetchOutcomes(cur[1], token) :
         LET fetched == EnrichFetched(cur[1].owner, cur[1].repo, cur[1].number,
                                      token, fetch)
         IN  \E dbok \in DbOutcomes(fetched) :
               LET result == EnrichOutcome(fetched, dbok)
               IN  /\ ecall' = Call(cur[1], fetch, result)
                   /\ prs' = EnrichStore(prs, fetched, dbok)
                   /\ pass' = [pass EXCEPT
                                  !.failure = IF result.kind = "returned" THEN @
                                              ELSE "enrich",
                                  !.enriched = Append(@, FormatPrId(cur[1].owner,
                                                                    cur[1].repo,
                                                                    cur[1].number))]
                   /\ IF result.kind = "returned"
                      THEN /\ lastInput' = Noted(lastInput, result.data)
                           /\ data' = Some(result.data)
                           /\ pc' = "write"
                      ELSE /\ pc' = "raised"
                           /\ UNCHANGED <<lastInput, data>>
    /\ lastOp' = "enrich"
    /\ UNCHANGED <<asked, pureVars>>
    /\ UNCHANGED <<run_prs, runs, limit, b_runs, b_idx, seen_ids, cur, writerVars,
                   calls>>

\* lines 53-58: upsert_pr(data), then link_run_pr(r["id"], data["id"]); whatever
\* either raises is swallowed. data["id"] is a KeyError when data has no "id".
BWrite(upOk, linkOk) ==
    /\ pc = "write"
    /\ LET upserted == ~UpsertRaises(data[1]) /\ upOk
           linked   == upserted /\ "id" \in DOMAIN data[1] /\ linkOk
       IN  /\ prs' = IF upserted THEN ExecUpsert(prs, UpsertRow(data[1])) ELSE prs
           /\ lastInput' = IF upserted THEN Noted(lastInput, data[1]) ELSE lastInput
           /\ run_prs' = IF linked
                         THEN link_run_pr(run_prs, b_runs[b_idx].id, data[1]["id"][1])
                         ELSE run_prs
           /\ asked' = IF linked
                       THEN asked \cup {<<b_runs[b_idx].id, data[1]["id"][1]>>}
                       ELSE asked
           /\ pass' = [pass EXCEPT !.upserts = @ + IntOfBool(upserted),
                                   !.links = @ + IntOfBool(linked),
                                   !.writeFailed = (@ \/ ~linked),
                                   !.failure = IF AfterWrite(~linked) = "raised"
                                               THEN "write" ELSE @]
           /\ pc' = AfterWrite(~linked)
           /\ b_idx' = IF AfterWrite(~linked) = "loop" THEN b_idx + 1 ELSE b_idx
    /\ lastOp' = "other"
    /\ UNCHANGED pureVars
    /\ UNCHANGED <<runs, limit, b_runs, seen_ids, cur, data, writerVars, calls, ecall>>

\* the request is answered (a raised exception as an error response)
ReviewFinish ==
    /\ pc \in {"done", "raised"}
    /\ pc' = "idle"
    /\ b_runs' = <<>>
    /\ b_idx' = 0
    /\ seen_ids' = {}
    /\ cur' = None
    /\ data' = None
    /\ lastOp' = "other"
    /\ UNCHANGED <<asked, pureVars>>
    /\ UNCHANGED <<storeVars, runs, limit, pass, writerVars, calls, lastInput, ecall>>

(***************************************************************************)
(* Specifications                                                          *)
(***************************************************************************)
StoreNext ==
    \/ \E w \in Writers, input \in UpsertInputs : WBind(w, input)
    \/ \E w \in Writers, dbok \in BOOLEAN : WExec(w, dbok)
    \/ \E w \in Writers : WReturn(w)
    \/ \E identifier \in EnrichIdentifiers, token \in BOOLEAN :
          EnrichCall(identifier, token)
    \/ \E run_id \in {RunId(1), RunId(2)} : LinkCall(run_id, Id_ab1)

BackfillNext ==
    \/ \E url \in RunUrls : AddRun(url)
    \/ \E bodyLimit \in BodyLimits : BStart(bodyLimit)
    \/ BFetchRuns
    \/ BNext
    \/ \E token \in BOOLEAN : BEnrich(token)
    \/ \E upOk \in BOOLEAN, linkOk \in BOOLEAN : BWrite(upOk, linkOk)
    \/ ReviewFinish

RaceNext ==
    \/ \E w \in Writers, input \in UpsertInputs : WBind(w, input)
    \/ \E w \in Writers, dbok \in BOOLEAN : WExec(w, dbok)

\* a caller of score_pr
ScoreCall(pr) ==
    /\ arg' = Some(pr)
    /\ ret' = Some(score_pr(pr))
    /\ lastOp' = "score"
    /\ UNCHANGED progVars

ScoreNext == \E pr \in ScoreInputs : ScoreCall(pr)

\* main.py line 87: score, factors = compute_attention(pr)
AttentionCall(pr) ==
    /\ arg' = Some(pr)
    /\ ret' = Some(compute_attention(pr))
    /\ lastOp' = "attention"
    /\ UNCHANGED progVars

AttentionNext == \E pr \in AttentionInputs : AttentionCall(pr)

\* the items of the latest review
Batch == IF arg = None THEN <<>> ELSE arg[1]

\* main.py lines 84-96: a review whose rows are those of the latest review and
\* one more; each is appended to items, and items is sorted
RankCall(pr) ==
    /\ Len(Batch) < MaxBatch
    /\ arg' = Some(Append(Batch, pr))
    /\ ret' = Some(SortReversed(Append(Batch, pr)))
    /\ lastOp' = "rank"
    /\ UNCHANGED progVars

RankNext == \E pr \in RankItems : RankCall(pr)

\* a caller of recommendations
RecommendCall(scores, pr) ==
    /\ arg' = Some([scores |-> scores, pr |-> pr])
    /\ ret' = Some(recommendations(scores, pr))
    /\ lastOp' = "recommend"
    /\ UNCHANGED progVars

RecommendNext ==
    \E scores \in RecommendScores, pr \in RecommendPrs : RecommendCall(scores, pr)

\* the attention an item is ranked by
RankOf(item) == IF item.scores = None THEN 0 ELSE Attr(item.scores[1], "attention")

\* the batch is in rank order
Ranked(aggregate) ==
    \A i \in 1..(Len(aggregate) - 1) : RankOf(aggregate[i]) >= RankOf(aggregate[i + 1])

\* a caller of roadmap_hint with a ranked batch: that of the latest call, with
\* the items that came since
HintCall(items) ==
    /\ Len(Batch \o items) <= MaxAggregate
    /\ Ranked(Batch \o items)
    /\ arg' = Some(Batch \o items)
    /\ ret' = Some(roadmap_hint(Batch \o items))
    /\ lastOp' = "hint"
    /\ UNCHANGED progVars

HintNext == \E items \in {<<>>} \cup {<<a>> : a \in HintItems} : HintCall(items)

\* a caller of parse_pr_identifier
ParseCall(identifier) ==
    /\ arg' = Some(identifier)
    /\ ret' = Some(parse_pr_identifier(identifier))
    /\ lastOp' = "parse"
    /\ UNCHANGED progVars

ParseNext == \E identifier \in AcceptedForms \cup OtherStrings : ParseCall(identifier)

RoundTripNext ==
    \/ \E input \in RoundTripInputs : WBind("w1", input)
    \/ \E dbok \in BOOLEAN : WExec("w1", dbok)
    \/ WReturn("w1")

LinkNext == \E run_id \in LinkRuns, pr_id \in LinkPrs : LinkCall(run_id, pr_id)

Next == StoreNext \/ BackfillNext

\* the whole program
Spec == Init /\ [][Next]_vars

\* the review handler, its backfill and the pipeline that records runs
SpecBackfill == Init /\ [][BackfillNext]_vars

\* callers of the store and enrichment API
SpecStore == Init /\ [][StoreNext]_vars

\* two callers of upsert_pr, one call each
SpecRace == Init /\ [][RaceNext]_vars

\* one caller that upserts PullRequestRecords, for reading them back
SpecRoundTrip == Init /\ [][RoundTripNext]_vars

\* callers of score_pr
SpecScore == Init /\ [][ScoreNext]_vars

\* callers of compute_attention
SpecAttention == Init /\ [][AttentionNext]_vars

\* reviews that rank their items
SpecRank == Init /\ [][RankNext]_vars

\* callers of recommendations
SpecRecommend == Init /\ [][RecommendNext]_vars

\* callers of roadmap_hint
SpecHint == Init /\ [][HintNext]_vars

\* callers of parse_pr_identifier
SpecParse == Init /\ [][ParseNext]_vars

\* callers of link_run_pr
SpecLink == Init /\ [][LinkNext]_vars

(***************************************************************************)
(* Claims                                                                  *)
(***************************************************************************)
StoredIds == {prs[i].id[1] : i \in 1..Len(prs)}

Count(seq, x) == Cardinality({i \in 1..Len(seq) : seq[i] = x})

\* C1: after any sequence of upserts the table holds exactly one row per id
\* upserted, and that row is the row built from the latest record upserted
\* under the id alone: no column keeps a value of an earlier write.
C1_LastWriteWins ==
    /\ \A i, j \in 1..Len(prs) : prs[i].id = prs[j].id => i = j
    /\ StoredIds = DOMAIN lastInput
    /\ \A i \in 1..Len(prs) : prs[i] = UpsertRow(lastInput[prs[i].id[1]])

\* In_A and then In_B were upserted under a/b#1: one row, In_B's, without In_A's title
C1_Witness ==
    /\ \A w \in Writers : w_pc[w] = "done"
    /\ w_row["w1"][1].input = In_A
    /\ w_row["w2"][1].input = In_B
    /\ Id_ab1 \in DOMAIN lastInput
    /\ lastInput[Id_ab1] = In_B
    /\ Len(prs) = 1
    /\ prs[1].title = None
    /\ prs[1].author = Some("B")

\* C2 as claimed: a backfill pass that began with no stored PR and in which no
\* step failed has enriched each PR its runs resolve to exactly once and ends
\* with one stored row per such PR.
C2_Claim ==
    (pc = "done" /\ pass.cold /\ pass.failure = "none" /\ ~pass.writeFailed) =>
        \A k \in 1..Len(pass.refs) :
            LET p == parse_pr_url(pass.refs[k].pr_url[1])
            IN  p.kind = "ok" =>
                  LET id == FormatPrId(p.owner, p.repo, p.number)
                  IN  /\ Count(pass.enriched, id) = 1
                      /\ Cardinality({i \in 1..Len(prs) : prs[i].id = Some(id)}) = 1

\* C3 as claimed: when a pass is done, every run of the pass whose pr_url
\* resolves to a stored PR is linked to it, first run or later run.
C3_Claim ==
    pc = "done" =>
        \A k \in 1..Len(b_runs) :
            LET p == parse_pr_url(b_runs[k].pr_url[1])
            IN  (p.kind = "ok" /\ FormatPrId(p.owner, p.repo, p.number) \in StoredIds) =>
                  <<b_runs[k].id, FormatPrId(p.owner, p.repo, p.number)>> \in run_prs

\* C4 as claimed: a failed enrichment never aborts the pass.
C4_Claim == ~(pc = "raised" /\ pass.failure = "enrich")

\* C5 as claimed: a pr_url that cannot be resolved never aborts the pass.
C5_Claim == ~(pc = "raised" /\ pass.failure = "parse")

C7_CacheFirst ==
    (pc # "idle" /\ ~pass.cold) =>
        /\ pc = "done"
        /\ pass.enriched = <<>>
        /\ pass.upserts = 0
        /\ pass.links = 0
        /\ b_runs = <<>>

\* a second request found the PR the first one stored and did nothing
C7_Witness == pc = "done" /\ ~pass.cold /\ prs # <<>> /\ pass.n = 2 /\ runs # <<>>

RowsOfId(id) == {w_row[w][1].row : w \in {o \in Writers : w_pc[o] = "done" /\ w_row[o][1].row.id = id}}

\* C8: once a caller's upsert has returned, the row stored under its id is,
\* column for column, the row of one of the calls that have returned for that
\* id; so of two racing calls on one id one row survives whole, and two calls
\* on different ids both leave their row.
C8_RaceSerializes ==
    \A w \in Writers :
        w_pc[w] = "done" =>
            /\ Cardinality({i \in 1..Len(prs) : prs[i].id = w_row[w][1].row.id}) = 1
            /\ Stored(prs, w_row[w][1].row.id[1])[1] \in RowsOfId(w_row[w][1].row.id)

\* both callers held their row at once, for the same id, with different rows
C8_Witness ==
    /\ w_raced
    /\ \A w \in Writers : w_pc[w] = "done"
    /\ w_row["w1"][1].row.id = w_row["w2"][1].row.id
    /\ w_row["w1"][1].row # w_row["w2"][1].row
    /\ prs = <<w_row["w1"][1].row>>

\* callers of different ids raced and both rows are stored
C8_WitnessDistinct ==
    /\ w_raced
    /\ \A w \in Writers : w_pc[w] = "done"
    /\ w_row["w1"][1].row.id # w_row["w2"][1].row.id
    /\ Len(prs) = 2

Failed(fetch) == fetch.kind \in {"error", "null"}

C10_Claim == [][lastOp' = "enrich" => (prs' = prs /\ run_prs' = run_prs)]_vars

\* C10 amended: an enrich_pr call never changes a link; a call that returns
\* has stored the row of the record it returns under the record's id and has
\* left every other row as it was; a call that raises leaves the table as it was.
C10_Amended ==
    [][(lastOp' = "enrich" /\ ecall'.kind = "call") =>
          /\ run_prs' = run_prs
          /\ IF ecall'.result.kind = "returned"
             THEN LET row == UpsertRow(ecall'.result.data)
                  IN  /\ Stored(prs', row.id[1]) = Some(row)
                      /\ \A id \in StoredIds \ {row.id[1]} :
                            Stored(prs', id) = Stored(prs, id)
             ELSE prs' = prs]_vars

\* a link existed, enrich_pr returned, and its record is in the table
C10_Witness ==
    /\ lastOp = "enrich"
    /\ ecall.kind = "call"
    /\ ecall.result.kind = "returned"
    /\ run_prs # {}
    /\ prs # <<>>

ReadBack(id) == SelectSeq(get_recent_prs(prs, runs, None), LAMBDA r : r.id = Some(id))

\* the value read back equals the value supplied, as Python compares them (the
\* flags read back as 0 or 1, diff_stats as its text)
FieldEq(k, stored, supplied) ==
    IF k \in {"draft", "has_tests"}
    THEN supplied # None /\ stored = Some(IntOfBool(supplied[1]))
    ELSE IF k = "diff_stats"
    THEN IF supplied = None THEN stored = None
         ELSE supplied[1].kind = "str" /\ stored = Some(supplied[1].v)
    ELSE stored = supplied

\* C12 as claimed: a record upserted and read back by get_recent_prs equals the
\* input in every field the input supplied, the state included.
C12_Claim ==
    \A id \in DOMAIN lastInput :
        /\ Len(ReadBack(id)) = 1
        /\ \A k \in PrColumns \cap DOMAIN lastInput[id] :
              FieldEq(k, ReadBack(id)[1][k], lastInput[id][k])

\* C12 amended: the record read back equals the input in every field the input
\* supplied but the state; the state read back is "merged" when the input's
\* merged_at is set and the input's state when it is not.
C12_Amended ==
    \A id \in DOMAIN lastInput :
        /\ Len(ReadBack(id)) = 1
        /\ \A k \in (PrColumns \cap DOMAIN lastInput[id]) \ {"state"} :
              FieldEq(k, ReadBack(id)[1][k], lastInput[id][k])
        /\ ReadBack(id)[1].state =
              IF Get(lastInput[id], "merged_at") # None THEN Some("merged")
              ELSE Get(lastInput[id], "state")

\* a closed record with merged_at set was upserted and reads back as merged
C12_Witness ==
    /\ w_pc["w1"] = "done"
    /\ Id_ab1 \in DOMAIN lastInput
    /\ lastInput[Id_ab1].state = Some("closed")
    /\ lastInput[Id_ab1].merged_at = Some(3)
    /\ Len(ReadBack(Id_ab1)) = 1
    /\ ReadBack(Id_ab1)[1].state = Some("merged")
    /\ ReadBack(Id_ab1)[1].title = Some("A")

Dimensions == {"code_quality", "verbosity", "efficiency", "stability",
               "robustness", "clean_code", "reusability", "ingenuity"}

\* C13: for every PR dict, fields missing, null or negative included, score_pr
\* returns an attention in [0,100] and each of the eight dimensions in [0,10].
C13_ScoresInRange ==
    lastOp = "score" =>
        /\ ret[1].attention >= 0 /\ ret[1].attention <= 100 * Scale
        /\ \A dim \in Dimensions : ret[1][dim] >= 0 /\ ret[1][dim] <= 10 * Scale

\* a PR with negative additions, deletions null and changed_files missing was
\* scored, and its efficiency was cut to 10 and its attention to 0
C13_Witness ==
    /\ lastOp = "score"
    /\ Get(arg[1], "additions") = Some(-2000)
    /\ "deletions" \in DOMAIN arg[1] /\ arg[1]["deletions"] = None
    /\ "changed_files" \notin DOMAIN arg[1]
    /\ ret[1].efficiency = 10 * Scale
    /\ ret[1].attention = 0

\* the record of the example: churn 800 in 40 files, no tests, no draft, CI failed
C14_Example ==
    [additions |-> Some(700), deletions |-> Some(100), changed_files |-> Some(40),
     has_tests |-> Some(FALSE), draft |-> Some(FALSE), ci_status |-> Some("failure"),
     doc_touch_ratio |-> Some(5)]

Orders(n) == {f \in [1..n -> 1..n] : \A i, j \in 1..n : i # j => f[i] # f[j]}

\* out holds the items of inp, and items of equal score in the order of inp
StableOrderOf(out, inp) ==
    /\ Len(out) = Len(inp)
    /\ \E f \in Orders(Len(inp)) :
          /\ \A k \in 1..Len(inp) : out[k] = inp[f[k]]
          /\ \A k, l \in 1..Len(inp) :
                (k < l /\ SortKey(out[k]) = SortKey(out[l])) => f[k] < f[l]

\* C15: the ranked items are the input items by attention score descending,
\* items of equal score in their input order; ranking the input again, or the
\* output, gives the same sequence.
C15_StableRanking ==
    lastOp = "rank" =>
        /\ \A k, l \in 1..Len(ret[1]) :
              k < l => SortKey(ret[1][k]) >= SortKey(ret[1][l])
        /\ StableOrderOf(ret[1], arg[1])
        /\ SortReversed(arg[1]) = ret[1]
        /\ SortReversed(ret[1]) = ret[1]

\* a low item before two different items of one higher score was ranked: the
\* two come first, in their input order
C15_Witness ==
    /\ lastOp = "rank"
    /\ Len(arg[1]) = 3
    /\ SortKey(arg[1][1]) = 10 /\ SortKey(arg[1][2]) = 90 /\ SortKey(arg[1][3]) = 90
    /\ arg[1][2].id = Some(<<"q">>) /\ arg[1][3].id = Some(<<"r">>)
    /\ ret[1] = <<arg[1][2], arg[1][3], arg[1][1]>>

\* the five suggestions in their fixed order
SuggestionOrder == <<"tests", "documentation", "splitting", "focused review", "profiling">>

SuggestionText(name) ==
    CASE name = "tests" -> NEXT_STEPS_TEMPLATES.tests_missing
      [] name = "documentation" -> NEXT_STEPS_TEMPLATES.docs_low
      [] name = "splitting" -> NEXT_STEPS_TEMPLATES.too_large
      [] name = "focused review" -> NEXT_STEPS_TEMPLATES.needs_review
      [] name = "profiling" -> NEXT_STEPS_TEMPLATES.perf_risk

\* the trigger of each suggestion for the PR that was scored
SuggestionTriggered(name, scored) ==
    CASE name = "tests" ->
            Attr(scored.scores, "stability") < 6 * Scale
            \/ ~TruthyB(Get(scored.pr, "has_tests"))
      [] name = "documentation" -> Attr(scored.scores, "verbosity") < 5 * Scale
      [] name = "splitting" -> Attr(scored.scores, "clean_code") < 6 * Scale
      [] name = "focused review" -> Attr(scored.scores, "attention") > 60 * Scale
      [] name = "profiling" -> Attr(scored.scores, "efficiency") < 5 * Scale

TriggeredSuggestions(scored) ==
    SelectSeq(SuggestionOrder, LAMBDA name : SuggestionTriggered(name, scored))

\* C16: the recommendations are at most 3, all different, and are the first
\* min(3, k) of the k triggered suggestions in the order tests, documentation,
\* splitting, focused review, profiling; without tests and with verbosity below
\* 5 the list starts with the tests and then the documentation suggestion.
C16_Recommendations ==
    lastOp = "recommend" =>
        /\ Len(ret[1]) <= 3
        /\ \A i, j \in 1..Len(ret[1]) : i # j => ret[1][i] # ret[1][j]
        /\ Len(ret[1]) = Min2(3, Len(TriggeredSuggestions(arg[1])))
        /\ \A i \in 1..Len(ret[1]) :
              ret[1][i] = SuggestionText(TriggeredSuggestions(arg[1])[i])
        /\ (/\ ~TruthyB(Get(arg[1].pr, "has_tests"))
            /\ Attr(arg[1].scores, "verbosity") < 5 * Scale)
           => /\ ret[1][1] = NEXT_STEPS_TEMPLATES.tests_missing
              /\ ret[1][2] = NEXT_STEPS_TEMPLATES.docs_low

\* a PR without tests that triggers all five suggestions got the first three
C16_Witness ==
    /\ lastOp = "recommend"
    /\ arg[1].pr.has_tests = Some(FALSE)
    /\ Len(TriggeredSuggestions(arg[1])) = 5
    /\ ret[1] = <<NEXT_STEPS_TEMPLATES.tests_missing, NEXT_STEPS_TEMPLATES.docs_low,
                  NEXT_STEPS_TEMPLATES.too_large>>

\* the rules, on the counts of the batch the hint was made for
C17_AttnRule == AttnHighCount(arg[1]) >= Max2(2, Len(arg[1]) \div 3)

C17_DocsRule == LowDocsCount(arg[1]) >= Max2(2, Len(arg[1]) \div 4)

C17_TestsRule == LowTestsCount(arg[1]) >= Max2(2, Len(arg[1]) \div 4)

C17_PerfRule == PerfRiskCount(arg[1]) >= Max2(2, Len(arg[1]) \div 4)

\* C17: the hint is that of the first rule that matches, in the order: empty
\* batch (bootstrap message), docs and attention together, attention alone
\* (count >= max(2, total // 3)), docs, tests, performance (each count >=
\* max(2, total // 4)), and the steady-state message if none matches; a batch
\* that is not empty never gets the bootstrap message.
C17_RoadmapHint ==
    lastOp = "hint" =>
        /\ ret[1] =
              IF arg[1] = <<>> THEN "No data yet."
              ELSE IF C17_AttnRule /\ C17_DocsRule
              THEN "Prioritize a documentation and testing sprint; enforce PR size guardrails and module ownership."
              ELSE IF C17_AttnRule
              THEN "Enforce PR size guardrails; require risk checklists on high-attention changes."
              ELSE IF C17_DocsRule
              THEN "Invest in better documentation and rationale sections in PRs; adopt a docs checklist."
              ELSE IF C17_TestsRule
              THEN "Schedule a testing push; add CI gates requiring targeted unit tests on changed modules."
              ELSE IF C17_PerfRule
              THEN "Add performance budgets and basic benchmarks for hotspots; profile critical paths."
              ELSE "Steady state; continue current review process and incremental improvements."
        /\ arg[1] # <<>> => ret[1] # "No data yet."

\* a batch of 12 where the attention, the tests and the performance rule match
\* with thresholds 4 and 3, and the hint is that of the attention rule
C17_Witness ==
    /\ lastOp = "hint"
    /\ Len(arg[1]) = 12
    /\ AttnHighCount(arg[1]) = 4
    /\ LowDocsCount(arg[1]) = 2
    /\ C17_TestsRule /\ C17_PerfRule
    /\ ret[1] = "Enforce PR size guardrails; require risk checklists on high-attention changes."

\* C18 as claimed: for an identifier in one of the three forms the parser
\* returns the owner, repo and number written in it, whatever the names are;
\* for every other string it raises the ValueError of a malformed identifier.
C18_Claim ==
    lastOp = "parse" =>
        /\ \A o \in ParseNames, r \in ParseNames, n \in ParseNums :
              (\/ arg[1] = ShortForm(o, r, n)
               \/ \E t \in ParseTails : arg[1] = WebUrl(o, r, n) \o t
               \/ arg[1] = ApiUrl(o, r, n))
              => ret[1] = Parsed(o, r, DigitsValue(n))
        /\ arg[1] \in OtherStrings => ret[1] = ValueError

====
